---- MODULE Spec2Model ----
(***************************************************************************)
(* Model of the ESLint rule svg-size/check-image-size                      *)
(* (src/rules/check-image-size.js).                                        *)
(*                                                                         *)
(* Strings whose characters the code looks at (attribute values, ignore    *)
(* patterns, file paths) are sequences of one-character strings.  Strings  *)
(* that are only compared or passed through (node names, error messages,   *)
(* message ids) are TLA+ strings.  A JavaScript number is a record         *)
(* [nan |-> BOOLEAN, n |-> Int], so that NaN is a value of its own.        *)
(***************************************************************************)
EXTENDS Integers, Sequences, FiniteSets, TLC

----------------------------------------------------------------------------
(* JavaScript primitives used by the rule                                  *)

Num(i) == [nan |-> FALSE, n |-> i]

NaN == [nan |-> TRUE, n |-> 0]

\* variant: only 0 is taken for falsy (a test against 0 instead of !x)
FalsyZeroOnly(x) == ~x.nan /\ x.n = 0

\* !x for a number: NaN and 0 are falsy, every other number is truthy
FalsyNum(x) == x.nan \/ x.n = 0

\* variant: >= in place of >
GtOrEqual(x, y) == ~x.nan /\ ~y.nan /\ x.n >= y.n

\* x > y for numbers: every comparison with NaN is false
Gt(x, y) == ~x.nan /\ ~y.nan /\ x.n > y.n

Mul(x, y) == IF x.nan \/ y.nan THEN NaN ELSE Num(x.n * y.n)

Digits == <<"0", "1", "2", "3", "4", "5", "6", "7", "8", "9">>

IsDigit(c) == \E d \in 1..10 : Digits[d] = c

DigitVal(c) == (CHOOSE d \in 1..10 : Digits[d] = c) - 1

RECURSIVE SkipWhite(_)
SkipWhite(s) == IF s # <<>> /\ Head(s) = " " THEN SkipWhite(Tail(s)) ELSE s

\* value of the longest prefix of decimal digits of s, continuing from acc
RECURSIVE DigitPrefix(_, _)
DigitPrefix(s, acc) ==
    IF s # <<>> /\ IsDigit(Head(s))
    THEN DigitPrefix(Tail(s), acc * 10 + DigitVal(Head(s)))
    ELSE acc

\* parseInt(s, 10): leading white space, an optional sign, then the longest
\* prefix of digits; NaN when there is no digit there
parseInt(s) ==
    LET t    == SkipWhite(s)
        neg  == t # <<>> /\ Head(t) = "-"
        sign == t # <<>> /\ Head(t) \in {"-", "+"}
        u    == IF sign THEN Tail(t) ELSE t
    IN  IF u = <<>> \/ ~IsDigit(Head(u)) THEN NaN
        ELSE Num((IF neg THEN -1 ELSE 1) * DigitPrefix(u, 0))

\* String.prototype.startsWith
startsWith(s, prefix) ==
    Len(s) >= Len(prefix) /\ SubSeq(s, 1, Len(prefix)) = prefix

\* variant: the pattern is used as it is, no * is replaced
replaceNothing(s, c, by) == s

\* String.prototype.replace with a string pattern: the first occurrence only
RECURSIVE replaceFirst(_, _, _)
replaceFirst(s, c, by) ==
    IF s = <<>> THEN <<>>
    ELSE IF Head(s) = c THEN by \o Tail(s)
    ELSE <<Head(s)>> \o replaceFirst(Tail(s), c, by)

----------------------------------------------------------------------------
(* RegExp over the characters the ignore patterns of this model contain:   *)
(* a literal character, "." for any character, and the quantifier "*".     *)

\* new RegExp(src) throws SyntaxError("Nothing to repeat") when a "*" has no
\* atom before it: at the start, or right after another "*"
RegExpCompiles(src) ==
    \A i \in 1..Len(src) :
        src[i] = "*" => (i > 1 /\ src[i - 1] # "*")

AtomMatches(a, ch) == a = "." \/ a = ch

RECURSIVE MatchHere(_, _)
MatchHere(re, s) ==
    IF re = <<>> THEN TRUE
    ELSE IF Len(re) >= 2 /\ re[2] = "*"
    THEN \E k \in 0..Len(s) :
            /\ \A j \in 1..k : AtomMatches(re[1], s[j])
            /\ MatchHere(SubSeq(re, 3, Len(re)), SubSeq(s, k + 1, Len(s)))
    ELSE /\ s # <<>>
         /\ AtomMatches(re[1], Head(s))
         /\ MatchHere(Tail(re), Tail(s))

\* RegExp.prototype.test without anchors: a match may start anywhere
RegExpTest(re, s) ==
    \E i \in 1..(Len(s) + 1) : MatchHere(re, SubSeq(s, i, Len(s)))

----------------------------------------------------------------------------
(* Documents.  @xmldom/xmldom is a library outside the repository: a file's *)
(* text is represented by what DOMParser.parseFromString yields on it.     *)
(*   parse = "throws"    the parser throws an Error carrying `message`     *)
(*   parse = "undefined" the parser returns no document                    *)
(*   parse = "document"  a document; hasRoot says whether documentElement  *)
(*                       exists                                            *)
(* An element is [nodeName, attributes, childNodes]; attributes is a set   *)
(* of <<name, value>> pairs with distinct names.                           *)

Element(name, attributes, childNodes) ==
    [nodeName |-> name, attributes |-> attributes, childNodes |-> childNodes]

NoElement == Element("", {}, <<>>)

ParseThrows(msg) ==
    [parse |-> "throws", message |-> msg, hasRoot |-> FALSE,
     documentElement |-> NoElement]

ParseUndefined ==
    [parse |-> "undefined", message |-> "", hasRoot |-> FALSE,
     documentElement |-> NoElement]

EmptyDocument ==
    [parse |-> "document", message |-> "", hasRoot |-> FALSE,
     documentElement |-> NoElement]

Document(root) ==
    [parse |-> "document", message |-> "", hasRoot |-> TRUE,
     documentElement |-> root]

hasAttribute(el, name) == \E p \in el.attributes : p[1] = name

\* Element.getAttribute: the value, or the empty string (null in later
\* xmldom versions; both are falsy and both parse to NaN) when absent
getAttribute(el, name) ==
    IF hasAttribute(el, name)
    THEN (CHOOSE p \in el.attributes : p[1] = name)[2]
    ELSE <<>>

\* Element.getElementsByTagName: the descendants named `name`, in document
\* order (preorder), the element itself not included
RECURSIVE getElementsByTagName(_, _)
RECURSIVE ElementsOfList(_, _)
ElementsOfList(nodes, name) ==
    IF nodes = <<>> THEN <<>>
    ELSE LET first == Head(nodes)
         IN  (IF first.nodeName = name THEN <<first>> ELSE <<>>)
             \o getElementsByTagName(first, name)
             \o ElementsOfList(Tail(nodes), name)

getElementsByTagName(el, name) == ElementsOfList(el.childNodes, name)

----------------------------------------------------------------------------
(* The rule                                                                *)

\* process.cwd()
cwd == <<"/", "w">>

\* path.relative(from, to) for a path `to` below the directory `from`
pathRelative(from, to) ==
    IF startsWith(to, from \o <<"/">>)
    THEN SubSeq(to, Len(from) + 2, Len(to))
    ELSE to

TypeErrorMessage == "Cannot read properties of undefined"

RegExpErrorMessage == "Invalid regular expression: Nothing to repeat"

NotSvgMessage == "Not a valid SVG file"

\* context.report descriptors (loc is always line 1, column 0)
InvalidSvg(msg) == [messageId |-> "invalidSvg", data |-> [error |-> msg]]

MissingSvgDimensions == [messageId |-> "missingSvgDimensions"]

OversizedImage(imageWidth, imageHeight, svgWidth, svgHeight, filename) ==
    [messageId |-> "oversizedImage",
     data |-> [imageWidth |-> imageWidth.n, imageHeight |-> imageHeight.n,
               svgWidth |-> svgWidth.n, svgHeight |-> svgHeight.n,
               filename |-> filename]]

\* What a piece of code did: the descriptors it reported, in order, whether
\* it ended by throwing (and the Error's message), and how many image
\* elements its loop visited
Returned(reports, examined) ==
    [reports |-> reports, thrown |-> FALSE, message |-> "",
     examined |-> examined]

Thrown(msg) ==
    [reports |-> <<>>, thrown |-> TRUE, message |-> msg, examined |-> 0]

\* An optional option value
Given(v) == [given |-> TRUE, value |-> v]

NotGiven(v) == [given |-> FALSE, value |-> v]

\* const maxSizeRatio = options.maxSizeRatio || 2
maxSizeRatio(options) ==
    IF options.maxSizeRatio.given /\ options.maxSizeRatio.value # 0
    THEN Num(options.maxSizeRatio.value)
    ELSE Num(2)

\* const ignorePaths = options.ignorePaths || []
ignorePaths(options) ==
    IF options.ignorePaths.given THEN options.ignorePaths.value ELSE <<>>

\* the callback of ignorePaths.some for one pattern: "throws" when the
\* RegExp constructor throws, else the result of test
IgnorePatternTest(ignorePath, relativePath) ==
    LET source == replaceFirst(ignorePath, "*", <<".", "*">>)
    IN  IF ~RegExpCompiles(source) THEN "throws"
        ELSE IF RegExpTest(source, relativePath) THEN "true"
        ELSE "false"

\* Array.prototype.some from index i: stops at the first pattern whose
\* callback returns true or throws
RECURSIVE SomeIgnorePath(_, _, _)
SomeIgnorePath(paths, i, relativePath) ==
    IF i > Len(paths) THEN "false"
    ELSE LET r == IgnorePatternTest(paths[i], relativePath)
         IN  IF r = "false" THEN SomeIgnorePath(paths, i + 1, relativePath)
             ELSE r

shouldIgnoreFile(options, filePath) ==
    SomeIgnorePath(ignorePaths(options), 1, pathRelative(cwd, filePath))

\* DOMParser.parseFromString(content, 'application/xml')
parseSvgContent(content) == content.xml

DataImage == <<"d", "a", "t", "a", ":", "i", "m", "a", "g", "e">>

\* one iteration of the loop over the images: the descriptors it reports
CheckImage(image, svgWidth, svgHeight, options, filePath) ==
    LET imageWidth  == parseInt(getAttribute(image, "width"))
        imageHeight == parseInt(getAttribute(image, "height"))
        href == IF getAttribute(image, "href") # <<>>
                THEN getAttribute(image, "href")
                ELSE getAttribute(image, "xlink:href")
    IN  IF FalsyNum(imageWidth) \/ FalsyNum(imageHeight) \/ href = <<>>
        THEN <<>>
        ELSE IF /\ startsWith(href, DataImage)
                /\ \/ Gt(imageWidth, Mul(svgWidth, maxSizeRatio(options)))
                   \/ Gt(imageHeight, Mul(svgHeight, maxSizeRatio(options)))
        THEN <<OversizedImage(imageWidth, imageHeight, svgWidth, svgHeight,
                              pathRelative(cwd, filePath))>>
        ELSE <<>>

\* variant: the loop ends at the first finding
RECURSIVE ImageLoopStop(_, _, _, _, _, _)
ImageLoopStop(images, i, svgWidth, svgHeight, options, filePath) ==
    IF i > Len(images) THEN <<>>
    ELSE LET found == CheckImage(images[i], svgWidth, svgHeight, options,
                                 filePath)
         IN  IF found # <<>> THEN found
             ELSE ImageLoopStop(images, i + 1, svgWidth, svgHeight, options,
                                filePath)

\* for (let i = 0; i < images.length; i++): the iterations from index i on
RECURSIVE ImageLoop(_, _, _, _, _, _)
ImageLoop(images, i, svgWidth, svgHeight, options, filePath) ==
    IF i > Len(images) THEN <<>>
    ELSE CheckImage(images[i], svgWidth, svgHeight, options, filePath)
         \o ImageLoop(images, i + 1, svgWidth, svgHeight, options, filePath)

\* the try block of checkSvgContent
CheckSvgContentTry(options, filePath, content) ==
    LET doc == parseSvgContent(content)
        svg == doc.documentElement
        svgWidth  == parseInt(getAttribute(svg, "width"))
        svgHeight == parseInt(getAttribute(svg, "height"))
        images == getElementsByTagName(svg, "image")
    IN  IF doc.parse = "throws" THEN Thrown(doc.message)
        ELSE IF doc.parse = "undefined" THEN Thrown(TypeErrorMessage)
        ELSE IF ~doc.hasRoot \/ svg.nodeName # "svg"
        THEN Returned(<<InvalidSvg(NotSvgMessage)>>, 0)
        ELSE IF FalsyNum(svgWidth) \/ FalsyNum(svgHeight)
        THEN Returned(<<MissingSvgDimensions>>, 0)
        ELSE Returned(ImageLoop(images, 1, svgWidth, svgHeight, options,
                                filePath),
                      Len(images))

\* variant: the catch block swallows the error without a report
CheckSvgContentSwallow(out) ==
    IF out.thrown THEN Returned(out.reports, out.examined) ELSE out

\* catch (error) { context.report(invalidSvg, error.message) }
CheckSvgContentCatch(out) ==
    IF out.thrown
    THEN Returned(Append(out.reports, InvalidSvg(out.message)), out.examined)
    ELSE out

checkSvgContent(options, filePath, content) ==
    CheckSvgContentCatch(CheckSvgContentTry(options, filePath, content))

\* variant: the catch block reports and throws the error on
CheckSvgFileRethrow(out) ==
    IF out.thrown
    THEN [reports |-> Append(out.reports, InvalidSvg(out.message)),
          thrown |-> TRUE, message |-> out.message, examined |-> out.examined]
    ELSE out

\* the catch block of checkSvgFile
CheckSvgFileCatch(out) ==
    IF out.thrown
    THEN Returned(Append(out.reports, InvalidSvg(out.message)), out.examined)
    ELSE out

\* the handler given to checkSvgFile(filename).catch in Program
ProgramCatch(out) ==
    IF out.thrown
    THEN Returned(Append(out.reports, InvalidSvg(out.message)), out.examined)
    ELSE out

----------------------------------------------------------------------------
(* State                                                                   *)

VARIABLES
    options,     \* context.options[0], the same for every file of the run
    disk,        \* per linted file: what fs.readFile yields for it
    pc,          \* per file: where its Program handler / checkSvgFile is
    log,         \* every context.report call of the run, in order
    readCount,   \* per file: calls of fs.readFile
    parseCount,  \* per file: calls of parseSvgContent
    examined,    \* per file: image elements visited by the loop
    awaited,     \* per file: how the awaited checkSvgContent promise settled
    escaped      \* per file: an error left the .catch chain of Program

vars == <<options, disk, pc, log, readCount, parseCount, examined, awaited,
          escaped>>

FilesOf == DOMAIN disk

\* what fs.readFile(filePath, 'utf8') yields
ReadOk(xml) == [read |-> "ok", message |-> "", xml |-> xml]

ReadError(msg) == [read |-> "error", message |-> msg, xml |-> ParseUndefined]

\* variant: one context kept outside create and shared by every file
ContextShared(f) == CHOOSE g \in FilesOf : TRUE

\* the context a report of file f's rule instance goes to: create(context)
\* closes over the context ESLint made for that file
ContextOf(f) == f

\* the context.report calls of one piece of code, as log entries
Entries(f, reports, inProgram, readSettled) ==
    [i \in 1..Len(reports) |->
        [context |-> ContextOf(f), descriptor |-> reports[i],
         inProgram |-> inProgram, readSettled |-> readSettled]]

NotAwaited == [thrown |-> FALSE, message |-> ""]

InitWith(optionSet, diskSet) ==
    /\ options \in optionSet
    /\ disk \in diskSet
    /\ pc = [f \in DOMAIN disk |-> "idle"]
    /\ log = <<>>
    /\ readCount = [f \in DOMAIN disk |-> 0]
    /\ parseCount = [f \in DOMAIN disk |-> 0]
    /\ examined = [f \in DOMAIN disk |-> 0]
    /\ awaited = [f \in DOMAIN disk |-> NotAwaited]
    /\ escaped = [f \in DOMAIN disk |-> FALSE]

----------------------------------------------------------------------------
(* Actions                                                                 *)

\* Program(node): calls checkSvgFile(filename), which runs up to its first
\* await, and returns.  shouldIgnoreFile runs inside the try block: when the
\* RegExp constructor throws, the catch block reports at once.  Nothing is
\* left for the .catch handler, which would run only for a rejected promise.
Program(f) ==
    /\ pc[f] = "idle"
    /\ LET ignore == shouldIgnoreFile(options, f)
           out == ProgramCatch(CheckSvgFileCatch(
                      IF ignore = "throws" THEN Thrown(RegExpErrorMessage)
                      ELSE Returned(<<>>, 0)))
       IN  /\ log' = log \o Entries(f, out.reports, TRUE, FALSE)
           /\ escaped' = [escaped EXCEPT ![f] = out.thrown]
           /\ pc' = [pc EXCEPT ![f] =
                        IF ignore = "false" THEN "reading" ELSE "settled"]
           /\ readCount' = [readCount EXCEPT ![f] =
                               IF ignore = "false" THEN @ + 1 ELSE @]
    /\ UNCHANGED <<options, disk, parseCount, examined, awaited>>

\* fs.readFile fulfils: checkSvgFile resumes and calls checkSvgContent, which
\* has no await and so runs to its end; checkSvgFile then awaits its promise
ReadResolve(f) ==
    /\ pc[f] = "reading"
    /\ disk[f].read = "ok"
    /\ LET out == checkSvgContent(options, f, disk[f])
       IN  /\ log' = log \o Entries(f, out.reports, FALSE, TRUE)
           /\ examined' = [examined EXCEPT ![f] = out.examined]
           /\ awaited' = [awaited EXCEPT ![f] =
                             [thrown |-> out.thrown, message |-> out.message]]
    /\ parseCount' = [parseCount EXCEPT ![f] = @ + 1]
    /\ pc' = [pc EXCEPT ![f] = "awaitContent"]
    /\ UNCHANGED <<options, disk, readCount, escaped>>

\* fs.readFile rejects: the await throws inside the try block of checkSvgFile
ReadReject(f) ==
    /\ pc[f] = "reading"
    /\ disk[f].read = "error"
    /\ LET out == ProgramCatch(CheckSvgFileCatch(Thrown(disk[f].message)))
       IN  /\ log' = log \o Entries(f, out.reports, FALSE, TRUE)
           /\ escaped' = [escaped EXCEPT ![f] = out.thrown]
    /\ pc' = [pc EXCEPT ![f] = "settled"]
    /\ UNCHANGED <<options, disk, readCount, parseCount, examined, awaited>>

\* the promise of checkSvgContent settles: checkSvgFile resumes after its
\* second await and ends, and the promise Program holds settles
Resume(f) ==
    /\ pc[f] = "awaitContent"
    /\ LET out == ProgramCatch(CheckSvgFileCatch(
                      IF awaited[f].thrown THEN Thrown(awaited[f].message)
                      ELSE Returned(<<>>, 0)))
       IN  /\ log' = log \o Entries(f, out.reports, FALSE, TRUE)
           /\ escaped' = [escaped EXCEPT ![f] = out.thrown]
    /\ pc' = [pc EXCEPT ![f] = "settled"]
    /\ UNCHANGED <<options, disk, readCount, parseCount, examined, awaited>>

Next ==
    \/ \E f \in FilesOf : Program(f)
    \/ \E f \in FilesOf : ReadResolve(f)
    \/ \E f \in FilesOf : ReadReject(f)
    \/ \E f \in FilesOf : Resume(f)

----------------------------------------------------------------------------
(* Inputs                                                                  *)

\* most ignore patterns in ignorePaths
MaxIgnore == 2

\* most child nodes of the root element in the scanned documents
MaxChildren == 2

BoundedSeq(S, n) == UNION {[1..k -> S] : k \in 0..n}

\* the linted files, below process.cwd(): /w/a/x and /w/b
FileA == <<"/", "w", "/", "a", "/", "x">>

FileB == <<"/", "w", "/", "b">>

\* ignore patterns: a/* (the README's form), ** (a glob the RegExp
\* constructor rejects once its first * is replaced), w (occurs in the
\* absolute paths only) and *b
Patterns ==
    { <<"a", "/", "*">>, <<"*", "*">>, <<"w">>, <<"*", "b">> }

Absent == NotGiven(<<>>)

Str0 == <<"0">>

StrNeg4 == <<"-", "4">>

Str4 == <<"4">>

Str4px == <<"4", "p", "x">>

Str5 == <<"5">>

Str8 == <<"8">>

Str9 == <<"9">>

Str9px == <<"9", "p", "x">>

StrPx == <<"p", "x">>

DataImagePng == DataImage \o <<"/", "p", "n", "g">>

\* one character short of the prefix
DataImag == <<"d", "a", "t", "a", ":", "i", "m", "a", "g">>

ExternalPng == <<"x", ".", "p", "n", "g">>

Attr(name, opt) == IF opt.given THEN {<<name, opt.value>>} ELSE {}

Svg(width, height, childNodes) ==
    Element("svg", Attr("width", width) \cup Attr("height", height),
            childNodes)

Image(width, height, href, xlink) ==
    Element("image",
            Attr("width", width) \cup Attr("height", height)
                \cup Attr("href", href) \cup Attr("xlink:href", xlink),
            <<>>)

Group(childNodes) == Element("g", {}, childNodes)

ReadErrors == { ReadError("ENOENT: no such file or directory") }

ParseErrors == { ParseThrows("unclosed xml tag") }

RatioOptions == { NotGiven(0), Given(0), Given(1), Given(2), Given(-1) }

\* ---- the lifecycle of two files linted in one run
ImageA == Image(Given(Str9), Given(Str9), Given(DataImagePng), Absent)

ImageB == Image(Given(Str8), Given(Str5), Given(DataImagePng), Absent)

MainEntries ==
    ReadErrors
    \cup { ReadOk(x) : x \in ParseErrors }
    \cup { ReadOk(Document(Svg(Absent, Given(Str4), <<ImageA>>))),
           ReadOk(Document(Svg(Given(Str4), Given(Str4), <<ImageA>>))),
           ReadOk(Document(Svg(Given(Str4), Given(Str4),
                               <<ImageB, ImageA>>))) }

MainOptions ==
    [maxSizeRatio : { NotGiven(0), Given(1) },
     ignorePaths  : { Absent }
                    \cup { Given(q) : q \in BoundedSeq(Patterns, MaxIgnore) }]

Init == InitWith(MainOptions, [{FileA, FileB} -> MainEntries])

Spec == Init /\ [][Next]_vars

\* ---- one file, every shape of root and of a single image
RootWidths ==
    { Absent, Given(<<>>), Given(Str0), Given(StrNeg4), Given(Str4),
      Given(Str4px), Given(StrPx) }

RootHeights == { Absent, Given(Str0), Given(StrNeg4), Given(Str4) }

ImageWidths ==
    { Absent, Given(Str0), Given(StrNeg4), Given(Str8), Given(Str9),
      Given(Str9px) }

ImageHeights ==
    { Absent, Given(Str0), Given(StrNeg4), Given(Str8), Given(Str9) }

Hrefs ==
    { Absent, Given(<<>>), Given(DataImagePng), Given(DataImag),
      Given(ExternalPng) }

XlinkHrefs == { Absent, Given(DataImagePng) }

ContentImages ==
    { Image(w, h, r, x) :
        w \in ImageWidths, h \in ImageHeights, r \in Hrefs, x \in XlinkHrefs }

ContentDocuments ==
    ParseErrors
    \cup { ParseUndefined, EmptyDocument,
           Document(Element("html", {}, <<ImageA>>)),
           Document(Element("SVG", Attr("width", Given(Str4))
                                     \cup Attr("height", Given(Str4)),
                            <<ImageA>>)) }
    \cup { Document(Svg(w, h, c)) :
             w \in RootWidths, h \in RootHeights,
             c \in {<<>>} \cup { <<i>> : i \in ContentImages } }

ContentOptions == [maxSizeRatio : RatioOptions, ignorePaths : { Absent }]

InitContent ==
    InitWith(ContentOptions,
             [{FileA} -> ReadErrors \cup { ReadOk(x) : x \in ContentDocuments }])

SpecContent == InitContent /\ [][Next]_vars

\* ---- one file, several images at several depths
ImageExternal == Image(Given(Str9), Given(Str9), Given(ExternalPng), Absent)

ImageNoWidth == Image(Absent, Given(Str9), Given(DataImagePng), Absent)

ImageZero == Image(Given(Str0), Given(Str9), Given(DataImagePng), Absent)

ImageNegative == Image(Given(StrNeg4), Given(Str9), Absent, Given(DataImagePng))

ScanImages ==
    { ImageA, ImageB, ImageExternal, ImageNoWidth, ImageZero, ImageNegative }

ScanNodes ==
    ScanImages
    \cup { Group(<<i>>) : i \in {ImageA, ImageB} }
    \cup { Group(<<i, Group(<<j>>)>>) : i, j \in {ImageA, ImageB} }

ScanDocuments ==
    { Document(Svg(Given(Str4), Given(Str4), c)) :
        c \in BoundedSeq(ScanNodes, MaxChildren) }

ScanOptions ==
    [maxSizeRatio : { NotGiven(0), Given(1) }, ignorePaths : { Absent }]

InitScan ==
    InitWith(ScanOptions,
             [{FileA} -> ReadErrors \cup { ReadOk(x) : x \in ScanDocuments }])

SpecScan == InitScan /\ [][Next]_vars

----------------------------------------------------------------------------
(* What the properties speak of                                            *)

\* the entries of the log that went to file f's context, and their
\* descriptors
LogOf(f) == SelectSeq(log, LAMBDA e : e.context = f)

DiagsOf(f) == [i \in 1..Len(LogOf(f)) |-> LogOf(f)[i].descriptor]

WithId(diags, id) == SelectSeq(diags, LAMBDA d : d.messageId = id)

OversizedOf(f) == WithId(DiagsOf(f), "oversizedImage")

\* checkSvgContent has run for f
Checked(f) == pc[f] \in {"awaitContent", "settled"} /\ parseCount[f] = 1

\* f's text parses to a document whose root element is named svg
SvgRooted(f) ==
    /\ disk[f].read = "ok"
    /\ disk[f].xml.parse = "document"
    /\ disk[f].xml.hasRoot
    /\ disk[f].xml.documentElement.nodeName = "svg"

RootOf(f) == disk[f].xml.documentElement

\* an attribute value as the specification reads it
AllDigits(v) == v # <<>> /\ \A i \in 1..Len(v) : IsDigit(v[i])

RECURSIVE DecimalValue(_)
DecimalValue(v) ==
    IF v = <<>> THEN 0
    ELSE 10 * DecimalValue(SubSeq(v, 1, Len(v) - 1)) + DigitVal(v[Len(v)])

PositiveInteger(v) == AllDigits(v) /\ DecimalValue(v) > 0

NoDigit(v) == \A i \in 1..Len(v) : ~IsDigit(v[i])

ZeroOrNegative(v) ==
    \/ AllDigits(v) /\ DecimalValue(v) = 0
    \/ Len(v) >= 2 /\ v[1] = "-" /\ AllDigits(Tail(v))

AttrValue(el, name) == (CHOOSE p \in el.attributes : p[1] = name)[2]

HasPositive(el, name) ==
    hasAttribute(el, name) /\ PositiveInteger(AttrValue(el, name))

PositiveOf(el, name) == DecimalValue(AttrValue(el, name))

\* the reference of an image: href, or xlink:href only when href is absent
HasReference(image) ==
    hasAttribute(image, "href") \/ hasAttribute(image, "xlink:href")

ReferenceOf(image) ==
    IF hasAttribute(image, "href") THEN AttrValue(image, "href")
    ELSE AttrValue(image, "xlink:href")

Embedded(image) ==
    HasReference(image) /\ startsWith(ReferenceOf(image), DataImage)

\* the ratio k of the properties: the configured one, or 2 when not given
RatioOf == IF options.maxSizeRatio.given THEN options.maxSizeRatio.value ELSE 2

PatternsOf == IF options.ignorePaths.given THEN options.ignorePaths.value ELSE <<>>

RelativeOf(f) == SubSeq(f, Len(cwd) + 2, Len(f))

----------------------------------------------------------------------------
(* C1 *)

\* f is an svg of positive integer size holding one embedded image of
\* positive integer size, checked with a positive ratio
C1_Case(f) ==
    /\ SvgRooted(f)
    /\ HasPositive(RootOf(f), "width") /\ HasPositive(RootOf(f), "height")
    /\ RatioOf > 0
    /\ Len(RootOf(f).childNodes) = 1
    /\ LET image == RootOf(f).childNodes[1]
       IN  /\ image.nodeName = "image"
           /\ Embedded(image)
           /\ HasPositive(image, "width") /\ HasPositive(image, "height")

C1_Exceeds(f) ==
    LET image == RootOf(f).childNodes[1]
    IN  \/ PositiveOf(image, "width") > PositiveOf(RootOf(f), "width") * RatioOf
        \/ PositiveOf(image, "height") > PositiveOf(RootOf(f), "height") * RatioOf

\* C1: for an svg root W x H (positive integers), a positive ratio k (the
\* configured maxSizeRatio, or 2 when none is given) and an embedded image
\* w x h (positive integers), the check reports an oversizedImage diagnostic
\* if and only if w > W*k or h > H*k; at w = W*k and h = H*k it reports none.
C1_OversizedIff ==
    \A f \in FilesOf :
        (C1_Case(f) /\ Checked(f)) =>
            /\ Len(OversizedOf(f)) = (IF C1_Exceeds(f) THEN 1 ELSE 0)
            /\ DiagsOf(f) = OversizedOf(f)

\* an image twice the default-ratio root in width (8 = 4*2) and beyond it in
\* height has been reported
C1_Witness ==
    \E f \in FilesOf :
        /\ C1_Case(f) /\ Checked(f)
        /\ ~options.maxSizeRatio.given
        /\ PositiveOf(RootOf(f).childNodes[1], "width")
              = PositiveOf(RootOf(f), "width") * 2
        /\ Len(OversizedOf(f)) = 1

----------------------------------------------------------------------------
(* C2 *)

C2_Case(f) ==
    /\ SvgRooted(f)
    /\ \/ ~hasAttribute(RootOf(f), "width")
       \/ ~hasAttribute(RootOf(f), "height")
       \/ NoDigit(AttrValue(RootOf(f), "width"))
       \/ NoDigit(AttrValue(RootOf(f), "height"))

\* C2: when the root svg has no width or no height attribute, or one of
\* them is not numeric, the check reports exactly one missingSvgDimensions
\* diagnostic and nothing else, and visits no image element.
C2_MissingDimensions ==
    \A f \in FilesOf :
        C2_Case(f) =>
            /\ examined[f] = 0
            /\ DiagsOf(f) = (IF Checked(f) THEN <<MissingSvgDimensions>>
                             ELSE <<>>)

\* a root without usable size that holds an embedded image has been checked
C2_Witness ==
    \E f \in FilesOf :
        /\ C2_Case(f) /\ Checked(f)
        /\ Len(RootOf(f).childNodes) = 1
        /\ Embedded(RootOf(f).childNodes[1])
        /\ HasPositive(RootOf(f).childNodes[1], "width")
        /\ HasPositive(RootOf(f).childNodes[1], "height")
        /\ DiagsOf(f) = <<MissingSvgDimensions>>

----------------------------------------------------------------------------
(* C3 *)

----------------------------------------------------------------------------
(* C4 *)

\* the pattern, as the regular expression the rule makes of it, matches
PatternMatches(pattern, path) ==
    LET source == replaceFirst(pattern, "*", <<".", "*">>)
    IN  RegExpCompiles(source) /\ RegExpTest(source, path)

MatchesSomePattern(f) ==
    \E i \in 1..Len(PatternsOf) : PatternMatches(PatternsOf[i], RelativeOf(f))

\* C4: a file whose path relative to the working directory matches any of
\* the ignore patterns is never read, never parsed and gets no diagnostic,
\* whatever the other patterns are; with no pattern no file is exempt.
C4_IgnoredFileUntouched ==
    \A f \in FilesOf :
        /\ MatchesSomePattern(f) =>
              readCount[f] = 0 /\ parseCount[f] = 0 /\ DiagsOf(f) = <<>>
        /\ (PatternsOf = <<>> /\ pc[f] # "idle") => readCount[f] = 1

----------------------------------------------------------------------------
(* C5 *)

\* C5: a root width or height of zero or below gives missingSvgDimensions
\* and no oversizedImage diagnostic, an image with a width or height of zero
\* or below is skipped, and every oversizedImage diagnostic carries strictly
\* positive imageWidth, imageHeight, svgWidth and svgHeight.
C5_NonPositiveUnresolved ==
    \A f \in FilesOf :
        /\ ( /\ SvgRooted(f) /\ Checked(f)
             /\ \/ /\ hasAttribute(RootOf(f), "width")
                   /\ ZeroOrNegative(AttrValue(RootOf(f), "width"))
                \/ /\ hasAttribute(RootOf(f), "height")
                   /\ ZeroOrNegative(AttrValue(RootOf(f), "height")) )
           => DiagsOf(f) = <<MissingSvgDimensions>>
        /\ \A i \in 1..Len(OversizedOf(f)) :
              /\ OversizedOf(f)[i].data.imageWidth > 0
              /\ OversizedOf(f)[i].data.imageHeight > 0
              /\ OversizedOf(f)[i].data.svgWidth > 0
              /\ OversizedOf(f)[i].data.svgHeight > 0

----------------------------------------------------------------------------
(* C6 *)

\* a width or height that does not resolve: missing, without a leading
\* number, zero or negative
Unresolved(el, name) ==
    \/ ~hasAttribute(el, name)
    \/ NoDigit(AttrValue(el, name))
    \/ ZeroOrNegative(AttrValue(el, name))

\* C6: an image whose reference (href, or xlink:href only when href is
\* absent) is missing or does not start with data:image, or whose width or
\* height is unresolved, never produces a diagnostic.
C6_SkippedImageSilent ==
    \A f \in FilesOf :
        ( /\ SvgRooted(f)
          /\ Len(RootOf(f).childNodes) = 1
          /\ LET image == RootOf(f).childNodes[1]
             IN  \/ ~Embedded(image)
                 \/ Unresolved(image, "width")
                 \/ Unresolved(image, "height") )
        => OversizedOf(f) = <<>>

----------------------------------------------------------------------------
(* C7 *)

\* the number an attribute value starts with, sign included: 0 when the
\* attribute is absent or starts with no number
DeclaredSize(el, name) ==
    IF ~hasAttribute(el, name) THEN 0
    ELSE LET v == AttrValue(el, name)
             negative == v # <<>> /\ v[1] = "-"
             u == IF negative THEN Tail(v) ELSE v
             n == CHOOSE m \in 0..Len(u) :
                     /\ \A i \in 1..m : IsDigit(u[i])
                     /\ m = Len(u) \/ ~IsDigit(u[m + 1])
             value == DecimalValue(SubSeq(u, 1, n))
         IN  IF negative THEN 0 - value ELSE value

\* the reference of an image as C7 reads it: the first of href and
\* xlink:href that is there and not empty
NonEmptyReference(image) ==
    IF hasAttribute(image, "href") /\ Len(AttrValue(image, "href")) > 0
    THEN AttrValue(image, "href")
    ELSE IF hasAttribute(image, "xlink:href")
    THEN AttrValue(image, "xlink:href")
    ELSE <<>>

\* an embedded image with a declared width and height, one of them beyond
\* the root's times the ratio in use
Offending(image, root) ==
    LET k == IF RatioOf = 0 THEN 2 ELSE RatioOf
    IN  /\ startsWith(NonEmptyReference(image), DataImage)
        /\ DeclaredSize(image, "width") # 0
        /\ DeclaredSize(image, "height") # 0
        /\ \/ DeclaredSize(image, "width") > DeclaredSize(root, "width") * k
           \/ DeclaredSize(image, "height") > DeclaredSize(root, "height") * k

\* the elements named image below el, each with its path of child indexes
RECURSIVE ImagePaths(_, _)
ImagePaths(el, path) ==
    UNION { (IF el.childNodes[i].nodeName = "image"
             THEN { <<path \o <<i>>, el.childNodes[i]>> } ELSE {})
            \cup ImagePaths(el.childNodes[i], path \o <<i>>) :
            i \in 1..Len(el.childNodes) }

\* document order: a path comes before another when it is a proper prefix
\* of it or smaller at the first index where they differ
Before(p, q) ==
    \/ Len(p) < Len(q) /\ SubSeq(q, 1, Len(p)) = p
    \/ \E i \in 1..Len(p) :
          /\ i <= Len(q)
          /\ SubSeq(p, 1, i - 1) = SubSeq(q, 1, i - 1)
          /\ p[i] < q[i]

\* the diagnostics expected of f: one per offending image, in document order
ExpectedOversized(f) ==
    LET offending == { e \in ImagePaths(RootOf(f), <<>>) :
                          Offending(e[2], RootOf(f)) }
        rank(e) == Cardinality({ d \in offending : Before(d[1], e[1]) }) + 1
    IN  [i \in 1..Cardinality(offending) |->
            LET e == CHOOSE x \in offending : rank(x) = i
            IN  [messageId |-> "oversizedImage",
                 data |-> [imageWidth  |-> DeclaredSize(e[2], "width"),
                           imageHeight |-> DeclaredSize(e[2], "height"),
                           svgWidth    |-> DeclaredSize(RootOf(f), "width"),
                           svgHeight   |-> DeclaredSize(RootOf(f), "height"),
                           filename    |-> RelativeOf(f)]]]

----------------------------------------------------------------------------
(* C8 *)

\* C8: a failed read of a file that is not ignored is reported as exactly
\* one invalidSvg diagnostic carrying the failure's message; the content is
\* never checked, the read is not repeated, and no error leaves the handler
\* chain.  Any failure is reported once, not once per enclosing handler.
C8_ReadFailureOnce ==
    \A f \in FilesOf :
        /\ ~escaped[f]
        /\ readCount[f] <= 1
        /\ Len(WithId(DiagsOf(f), "invalidSvg")) <= 1
        /\ (disk[f].read = "error" /\ readCount[f] = 1) =>
              /\ parseCount[f] = 0
              /\ DiagsOf(f) = (IF pc[f] = "settled"
                               THEN <<InvalidSvg(disk[f].message)>>
                               ELSE <<>>)

\* a read has failed and has been reported
C8_Witness ==
    \E f \in FilesOf :
        /\ disk[f].read = "error" /\ readCount[f] = 1 /\ pc[f] = "settled"
        /\ Len(DiagsOf(f)) = 1

----------------------------------------------------------------------------
(* C9 *)

\* what file f gets when it is the only file linted
AloneDiagnostics(f) ==
    IF \E i \in 1..Len(PatternsOf) :
          /\ ~RegExpCompiles(replaceFirst(PatternsOf[i], "*", <<".", "*">>))
          /\ \A j \in 1..(i - 1) : ~PatternMatches(PatternsOf[j], RelativeOf(f))
    THEN <<InvalidSvg(RegExpErrorMessage)>>
    ELSE IF MatchesSomePattern(f) THEN <<>>
    ELSE IF disk[f].read = "error" THEN <<InvalidSvg(disk[f].message)>>
    ELSE checkSvgContent(options, f, disk[f]).reports

\* C9: with several files in flight together and their reads completing in
\* any order, each file's diagnostics are those it gets when linted alone,
\* and each diagnostic goes to the context of its own file.
C9_NoInterference ==
    /\ \A f \in FilesOf :
          pc[f] = "settled" => DiagsOf(f) = AloneDiagnostics(f)
    /\ \A i \in 1..Len(log) :
          /\ log[i].context \in FilesOf
          /\ log[i].descriptor.messageId = "oversizedImage" =>
                log[i].descriptor.data.filename = RelativeOf(log[i].context)

\* the reads of both files were in flight together: FileB has settled with
\* its diagnostics after FileA reported its own, and FileA is not yet settled
C9_Witness ==
    /\ readCount[FileA] = 1 /\ readCount[FileB] = 1
    /\ pc[FileA] = "awaitContent" /\ pc[FileB] = "settled"
    /\ DiagsOf(FileA) # <<>> /\ DiagsOf(FileB) # <<>>
    /\ DiagsOf(FileA) # DiagsOf(FileB)
    /\ log[1].context = FileA
    /\ log[Len(log)].context = FileB

----------------------------------------------------------------------------
(* C10 *)

\* the RegExp constructor accepts the pattern once its first * is .*
PatternCompiles(pattern) ==
    \A i \in 1..(Len(pattern) - 1) : ~(pattern[i] = "*" /\ pattern[i + 1] = "*")

\* C10: when every ignore pattern compiles, the Program handler reports
\* nothing itself: every diagnostic is reported after the handler returned
\* and after the read of its file settled.
C10_NothingSynchronous ==
    (\A i \in 1..Len(PatternsOf) : PatternCompiles(PatternsOf[i])) =>
        \A i \in 1..Len(log) :
            /\ ~log[i].inProgram
            /\ log[i].readSettled
            /\ readCount[log[i].context] = 1

\* patterns that compile, one of them starting with *, and a diagnostic
C10_Witness ==
    /\ Len(PatternsOf) > 0
    /\ \A i \in 1..Len(PatternsOf) : PatternCompiles(PatternsOf[i])
    /\ \E i \in 1..Len(PatternsOf) : PatternsOf[i][1] = "*"
    /\ Len(log) > 0

====
